---- MODULE Spec2Model ----
(***************************************************************************)
(* The OAuth token lifecycle of app.py: the token file (tokens.json), the  *)
(* /callback handler, refresh_access_token() and the four resource         *)
(* handlers that call it.  Every inbound HTTP request is one member of     *)
(* Requests; the requests run as threads of the Flask server.  The only    *)
(* state they share is the token file, so an action runs a request from    *)
(* one access to the file up to (not including) its next one: the outbound *)
(* calls and the local checks in between touch nothing another request     *)
(* can see.  (A failed refresh_access_token() and the handler's test of    *)
(* what it returned are two steps, so that the returned pair can be seen.) *)
(* Exceptions of the token exchanges are modelled, those of the resource   *)
(* calls and of reading a corrupt file are not.                            *)
(* When a handler returns, its locals are gone; what stays of a            *)
(* request is what it was asked (route, code), what it answered (status,   *)
(* body, the provider's answer /callback echoes) and the outbound calls it *)
(* issued.                                                                 *)
(***************************************************************************)
EXTENDS Integers, Sequences, FiniteSets, TLC

\* Number of inbound requests served in one behaviour.
NumRequests == 2

Requests == 1..NumRequests

(***************************************************************************)
(* Values.  A JSON/Python value is a string; three of them are set apart.  *)
(***************************************************************************)
\* the key is not in the dict
Absent == "<absent>"
\* Python None / JSON null
None == "<None>"
\* a local variable that has not been assigned yet
Unset == "<unset>"

\* Python truthiness of the value `if not v` tests (None and "" are falsy)
Truthy(v) == v \notin {None, "", Absent}

\* d.get(k): the value, or None when the key is missing
Get(d, k) == IF d[k] = Absent THEN None ELSE d[k]

\* `k in d`
HasKey(d, k) == d[k] # Absent

\* {} as load_tokens() returns it for a missing file
EmptyRecord == [refresh_token |-> Absent, access_token |-> Absent, api_domain |-> Absent]

\* refresh_data / auth_data before the provider has answered
NoResponse == [refresh_token |-> Unset, access_token |-> Unset, api_domain |-> Unset, error |-> Unset]

NoRefreshMsg == "No refresh token found. Please authenticate via /auth first."
GenericMsg == "Failed to refresh access token."

ListRoutes == {"customers", "orders"}
CreateRoutes == {"create_customer", "create_order"}
ResourceRoutes == ListRoutes \cup CreateRoutes

(***************************************************************************)
(* The environment: what tokens.json may hold when the server starts, what *)
(* the query string may carry, and what the provider may answer.           *)
(***************************************************************************)
\* tokens.json at start-up: no file, a record without refresh_token, one with
\* an empty refresh_token, and a complete record left by an earlier run
InitFiles ==
    { [exists |-> FALSE, data |-> EmptyRecord],
      [exists |-> TRUE, data |-> [refresh_token |-> Absent, access_token |-> "T0", api_domain |-> "D0"]],
      [exists |-> TRUE, data |-> [refresh_token |-> "", access_token |-> "T0", api_domain |-> "D0"]],
      [exists |-> TRUE, data |-> [refresh_token |-> "R1", access_token |-> "T0", api_domain |-> "D0"]] }

\* request.args.get("code"): missing, empty, a malformed code, a valid one
Codes == {None, "", "bad", "good"}
Malformed(c) == c = "bad"

\* a JSON body of the token endpoint
Body(r, a, d, e) == [refresh_token |-> r, access_token |-> a, api_domain |-> d, error |-> e]

\* JSON bodies of the token endpoint for grant_type=refresh_token: three with
\* both keys (one of them with an empty api_domain), four lacking a key, with
\* no error key, an error message, a null error and an empty error
RefreshResponses ==
    { Body(Absent, "T1", "D1", Absent),
      Body(Absent, "T2", "D2", Absent),
      Body(Absent, "T2", "", Absent),
      Body(Absent, Absent, Absent, Absent),
      Body(Absent, Absent, "D1", "invalid_code"),
      Body(Absent, "T1", Absent, None),
      Body(Absent, Absent, Absent, "") }

\* JSON bodies of the token endpoint for grant_type=authorization_code; for a
\* code it cannot parse the provider answers with an error and no tokens
AuthResponses(c) ==
    IF Malformed(c)
    THEN { Body(Absent, Absent, Absent, "invalid_code") }
    ELSE { Body("R2", "T3", "D3", Absent),
           Body(Absent, "T3", "D3", Absent),
           Body("", "T3", "D3", Absent),
           Body("R2", Absent, "D3", Absent),
           Body("R2", "T3", None, Absent) }

\* status codes of the provider's list and create endpoints
ListStatuses == {200, 403}
CreateStatuses == {200, 201, 403}

VARIABLES
    file,          \* tokens.json: [exists, data]
    pc,            \* where each request stands
    route,         \* the route each request came in on
    code,          \* callback: request.args.get("code")
    token_store,   \* the token_store a request is about to save
    refresh_data,  \* refresh_access_token: resp.json()
    auth_data,     \* callback: auth_response.json()
    access_token,  \* handler: first component of refresh_access_token()'s result
    err,           \* handler: second component of refresh_access_token()'s result
    calls,         \* outbound calls each request has issued, in order
    status,        \* HTTP status each request answered with (0: not yet)
    body,          \* the "error" or "note" of the JSON body it answered with
    lastExchange,  \* the request whose refresh exchange was answered last (0: none)
    lastSave       \* the request that called save_tokens() last (0: none)

vars == <<file, pc, route, code, token_store, refresh_data, auth_data,
          access_token, err, calls, status, body, lastExchange, lastSave>>

(***************************************************************************)
(* Token store.                                                            *)
(***************************************************************************)
\* a save whose write never reaches the file
save_tokens_lost(data) == file

\* json.dump(data) over the whole file
save_tokens(data) == [exists |-> TRUE, data |-> data]

\* the stored record, or {} when the file does not exist
load_tokens == IF file.exists THEN file.data ELSE EmptyRecord

(***************************************************************************)
(* refresh_access_token()                                                  *)
(***************************************************************************)
\* `if "refresh_token" not in token_store`
NoRefreshToken_KeyOnly(ts) == ~HasKey(ts, "refresh_token")

\* `if not refresh_token`
NoRefreshToken(ts) == ~Truthy(Get(ts, "refresh_token"))

\* the same test with `and` for `or`
RefreshIncomplete_And(rd) == ~HasKey(rd, "access_token") /\ ~HasKey(rd, "api_domain")

\* `"access_token" not in refresh_data or "api_domain" not in refresh_data`
RefreshIncomplete(rd) == ~HasKey(rd, "access_token") \/ ~HasKey(rd, "api_domain")

\* refresh_data.get("error", "Failed to refresh access token.")
RefreshError(rd) == IF HasKey(rd, "error") THEN rd.error ELSE GenericMsg

\* the update without its second assignment
RefreshUpdate_TokenOnly(ts, rd) == [ts EXCEPT !.access_token = rd.access_token]

\* token_store["access_token"] = ...; token_store["api_domain"] = ...
RefreshUpdate(ts, rd) ==
    [ts EXCEPT !.access_token = rd.access_token, !.api_domain = rd.api_domain]

Init ==
    /\ file \in InitFiles
    /\ pc = [p \in Requests |-> "new"]
    /\ route = [p \in Requests |-> "-"]
    /\ code = [p \in Requests |-> Unset]
    /\ token_store = [p \in Requests |-> EmptyRecord]
    /\ refresh_data = [p \in Requests |-> NoResponse]
    /\ auth_data = [p \in Requests |-> NoResponse]
    /\ access_token = [p \in Requests |-> Unset]
    /\ err = [p \in Requests |-> Unset]
    /\ calls = [p \in Requests |-> <<>>]
    /\ status = [p \in Requests |-> 0]
    /\ body = [p \in Requests |-> Unset]
    /\ lastExchange = 0
    /\ lastSave = 0

\* return jsonify({...: msg}), s -- the handler's locals go with its frame
Respond(p, s, msg) ==
    /\ pc' = [pc EXCEPT ![p] = "done"]
    /\ status' = [status EXCEPT ![p] = s]
    /\ body' = [body EXCEPT ![p] = msg]
    /\ token_store' = [token_store EXCEPT ![p] = EmptyRecord]
    /\ refresh_data' = [refresh_data EXCEPT ![p] = NoResponse]
    /\ access_token' = [access_token EXCEPT ![p] = Unset]
    /\ err' = [err EXCEPT ![p] = Unset]

\* the request goes on to the statement labelled l
Goto(p, l) ==
    /\ pc' = [pc EXCEPT ![p] = l]
    /\ UNCHANGED <<status, body>>

\* the request has issued the outbound calls cs, in this order
Call(p, cs) == calls' = [calls EXCEPT ![p] = @ \o cs]

\* refresh_access_token() returns (at, e) to the resource handler; rd is the
\* answer its exchange got
Returned(p, at, e, rd) ==
    /\ access_token' = [access_token EXCEPT ![p] = at]
    /\ err' = [err EXCEPT ![p] = e]
    /\ refresh_data' = [refresh_data EXCEPT ![p] = rd]
    /\ token_store' = [token_store EXCEPT ![p] = EmptyRecord]
    /\ Goto(p, "h_check")

\* a resource handler is entered; refresh_access_token() loads the record,
\* finds no refresh token and returns without a call
RefreshNoToken(p) ==
    /\ pc[p] = "new"
    /\ NoRefreshToken(load_tokens)
    /\ \E r \in ResourceRoutes : route' = [route EXCEPT ![p] = r]
    /\ Returned(p, None, NoRefreshMsg, NoResponse)
    /\ UNCHANGED <<file, code, auth_data, calls, lastExchange, lastSave>>

\* a resource handler is entered; refresh_access_token() loads the record,
\* posts its refresh token and checks the answer
RefreshExchange(p) ==
    /\ pc[p] = "new"
    /\ ~NoRefreshToken(load_tokens)
    /\ \E r \in ResourceRoutes : route' = [route EXCEPT ![p] = r]
    /\ Call(p, <<"refresh">>)
    /\ lastExchange' = p
    /\ \E rd \in RefreshResponses :
        IF RefreshIncomplete(rd)
        THEN Returned(p, None, RefreshError(rd), rd)
        ELSE /\ token_store' = [token_store EXCEPT ![p] = RefreshUpdate(load_tokens, rd)]
             /\ refresh_data' = [refresh_data EXCEPT ![p] = rd]
             /\ Goto(p, "r_save")
             /\ UNCHANGED <<access_token, err>>
    /\ UNCHANGED <<file, code, auth_data, lastSave>>

\* save_tokens(token_store); return refresh_data["access_token"], None -- the
\* handler's `if err` lets the None through
RefreshSave(p) ==
    /\ pc[p] = "r_save"
    /\ file' = save_tokens(token_store[p])
    /\ lastSave' = p
    /\ token_store' = [token_store EXCEPT ![p] = EmptyRecord]
    /\ access_token' = [access_token EXCEPT ![p] = refresh_data[p].access_token]
    /\ err' = [err EXCEPT ![p] = None]
    /\ Goto(p, IF Truthy(None) THEN "h_check" ELSE "h_load")
    /\ UNCHANGED <<route, code, refresh_data, auth_data, calls, lastExchange>>

\* the handler's `if err: return jsonify({"error": err}), 401`
HandlerCheck(p) ==
    /\ pc[p] = "h_check"
    /\ IF Truthy(err[p])
       THEN Respond(p, 401, err[p])
       ELSE /\ Goto(p, "h_load")
            /\ UNCHANGED <<token_store, refresh_data, access_token, err>>
    /\ UNCHANGED <<file, route, code, auth_data, calls, lastExchange, lastSave>>

\* the body a handler answers a failed provider call with
Failed(r) ==
    CASE r = "create_customer" -> "Failed to create customer"
      [] r = "customers" -> "Failed to fetch customers"
      [] r = "create_order" -> "Failed to create order"
      [] r = "orders" -> "Failed to fetch orders"

\* the handler's own load_tokens() finds no api_domain
DomainMissing(p) ==
    /\ pc[p] = "h_load"
    /\ ~Truthy(Get(load_tokens, "api_domain"))
    /\ Respond(p, 401, "API domain missing. Please authenticate again.")
    /\ UNCHANGED <<file, route, code, auth_data, calls, lastExchange, lastSave>>

\* create_customer / create_order: load_tokens(), then the POST to
\* {api_domain}/crm/v3/{module} with the access token, and the answer
CreateRecord(p) ==
    /\ pc[p] = "h_load"
    /\ route[p] \in CreateRoutes
    /\ Truthy(Get(load_tokens, "api_domain"))
    /\ Call(p, <<"create">>)
    /\ \E s \in CreateStatuses :
        IF s \in {200, 201}
        THEN Respond(p, 200, "created")
        ELSE Respond(p, s, Failed(route[p]))
    /\ UNCHANGED <<file, route, code, auth_data, lastExchange, lastSave>>

\* get_customers / get_orders: load_tokens(), then get_module_fields() fails
FieldsFailed(p) ==
    /\ pc[p] = "h_load"
    /\ route[p] \in ListRoutes
    /\ Truthy(Get(load_tokens, "api_domain"))
    /\ Call(p, <<"fields">>)
    /\ Respond(p, 500, "Failed to fetch fields")
    /\ UNCHANGED <<file, route, code, auth_data, lastExchange, lastSave>>

\* the list handlers with the GET repeated once when it fails
ListRecords_Retry(p) ==
    /\ pc[p] = "h_load"
    /\ route[p] \in ListRoutes
    /\ Truthy(Get(load_tokens, "api_domain"))
    /\ \E s \in ListStatuses :
        IF s = 200
        THEN /\ Call(p, <<"fields", "list">>)
             /\ Respond(p, 200, "listed")
        ELSE /\ Call(p, <<"fields", "list", "list">>)
             /\ Respond(p, s, Failed(route[p]))
    /\ UNCHANGED <<file, route, code, auth_data, lastExchange, lastSave>>

\* get_customers / get_orders: load_tokens(), get_module_fields(), then the
\* GET of the first page, and the answer
ListRecords(p) ==
    /\ pc[p] = "h_load"
    /\ route[p] \in ListRoutes
    /\ Truthy(Get(load_tokens, "api_domain"))
    /\ Call(p, <<"fields", "list">>)
    /\ \E s \in ListStatuses :
        IF s = 200
        THEN Respond(p, 200, "listed")
        ELSE Respond(p, s, Failed(route[p]))
    /\ UNCHANGED <<file, route, code, auth_data, lastExchange, lastSave>>

\* /auth: the consent URL is built and returned
Authorize(p) ==
    /\ pc[p] = "new"
    /\ route' = [route EXCEPT ![p] = "auth"]
    /\ Respond(p, 200, "auth_url")
    /\ UNCHANGED <<file, code, auth_data, calls, lastExchange, lastSave>>

\* `if code is None`
CodeMissing_NoneOnly(c) == c = None

\* `if not code`
CodeMissing(c) == ~Truthy(c)

\* the same test without its third disjunct
AuthIncomplete_NoDomain(ad) ==
    ~Truthy(Get(ad, "refresh_token")) \/ ~Truthy(Get(ad, "access_token"))

\* `if not refresh_token or not access_token or not api_domain`
AuthIncomplete(ad) ==
    \/ ~Truthy(Get(ad, "refresh_token"))
    \/ ~Truthy(Get(ad, "access_token"))
    \/ ~Truthy(Get(ad, "api_domain"))

\* the token_store dict callback builds from the three values
AuthRecord(ad) ==
    [refresh_token |-> Get(ad, "refresh_token"),
     access_token |-> Get(ad, "access_token"),
     api_domain |-> Get(ad, "api_domain")]

\* /callback without a code
CallbackNoCode(p) ==
    /\ pc[p] = "new"
    /\ route' = [route EXCEPT ![p] = "callback"]
    /\ \E c \in Codes :
        /\ CodeMissing(c)
        /\ code' = [code EXCEPT ![p] = c]
    /\ Respond(p, 400, "Authorization code not found")
    /\ UNCHANGED <<file, auth_data, calls, lastExchange, lastSave>>

\* /callback with a code: the code is posted to the token endpoint and the
\* three values are taken from the answer
CallbackExchange(p) ==
    /\ pc[p] = "new"
    /\ route' = [route EXCEPT ![p] = "callback"]
    /\ Call(p, <<"token">>)
    /\ \E c \in Codes :
        /\ ~CodeMissing(c)
        /\ code' = [code EXCEPT ![p] = c]
        /\ \E ad \in AuthResponses(c) :
            /\ auth_data' = [auth_data EXCEPT ![p] = ad]
            /\ IF AuthIncomplete(ad)
               THEN Respond(p, 400, "Missing refresh_token, access_token or api_domain in auth response.")
               ELSE /\ token_store' = [token_store EXCEPT ![p] = AuthRecord(ad)]
                    /\ Goto(p, "c_save")
                    /\ UNCHANGED <<refresh_data, access_token, err>>
    /\ UNCHANGED <<file, lastExchange, lastSave>>

\* save_tokens(token_store) and the success answer
CallbackSave(p) ==
    /\ pc[p] = "c_save"
    /\ file' = save_tokens(token_store[p])
    /\ lastSave' = p
    /\ Respond(p, 200, "Tokens fetched and saved successfully.")
    /\ UNCHANGED <<route, code, auth_data, calls, lastExchange>>

\* requests.post raises in callback (no connection, no JSON body): its except
\* clause answers 500
CallbackRaises(p) ==
    /\ pc[p] = "new"
    /\ route' = [route EXCEPT ![p] = "callback"]
    /\ \E c \in Codes :
        /\ ~CodeMissing(c)
        /\ code' = [code EXCEPT ![p] = c]
    /\ Call(p, <<"token">>)
    /\ Respond(p, 500, "Failed to process callback")
    /\ UNCHANGED <<file, auth_data, lastExchange, lastSave>>

\* requests.post raises in refresh_access_token(): nothing catches it and
\* Flask answers 500
RefreshRaises(p) ==
    /\ pc[p] = "new"
    /\ ~NoRefreshToken(load_tokens)
    /\ \E r \in ResourceRoutes : route' = [route EXCEPT ![p] = r]
    /\ Call(p, <<"refresh">>)
    /\ Respond(p, 500, "Internal Server Error")
    /\ UNCHANGED <<file, code, auth_data, lastExchange, lastSave>>

Next ==
    \E p \in Requests :
        \/ Authorize(p)
        \/ CallbackNoCode(p)
        \/ CallbackExchange(p)
        \/ CallbackRaises(p)
        \/ CallbackSave(p)
        \/ RefreshNoToken(p)
        \/ RefreshExchange(p)
        \/ RefreshRaises(p)
        \/ RefreshSave(p)
        \/ HandlerCheck(p)
        \/ DomainMissing(p)
        \/ CreateRecord(p)
        \/ FieldsFailed(p)
        \/ ListRecords(p)

Spec == Init /\ [][Next]_vars

(***************************************************************************)
(* Properties.                                                             *)
(***************************************************************************)
\* request p takes the step
StepOf(p) == pc'[p] # pc[p]

\* the refresh_token of the persisted record (Absent when there is none)
PersistedRefreshToken == IF file.exists THEN file.data.refresh_token ELSE Absent

\* a token-endpoint answer that lacks access_token or lacks api_domain
LacksTokenOrDomain(rd) == rd.access_token = Absent \/ rd.api_domain = Absent

\* a value that is present and not empty
NonEmpty(v) == v \notin {Absent, None, "", Unset}

\* an authorization-code answer with non-empty refresh_token, access_token, api_domain
HasAllThree(ad) ==
    NonEmpty(ad.refresh_token) /\ NonEmpty(ad.access_token) /\ NonEmpty(ad.api_domain)

\* the exchange of request p has been answered with rd
Answered(p) == refresh_data[p] # NoResponse

\* C1: the persisted refresh_token changes only in the save step of a callback
\* whose answer held all three values; no save of refresh_access_token()
\* changes it.
C1_RefreshTokenOnlyByCallback ==
    [][PersistedRefreshToken' # PersistedRefreshToken
        => \E p \in Requests :
            /\ pc[p] = "c_save"
            /\ pc'[p] = "done"
            /\ HasAllThree(auth_data[p])]_vars

C2_Failure ==
    \A p \in Requests :
        (Answered(p) /\ LacksTokenOrDomain(refresh_data[p]))
            => /\ pc[p] \in {"h_check", "h_load"}
               /\ access_token[p] = None
               /\ err[p] = (IF refresh_data[p].error = Absent
                            THEN "Failed to refresh access token."
                            ELSE refresh_data[p].error)
               /\ lastSave # p

C2_NoSave ==
    \A p \in Requests :
        (StepOf(p) /\ pc[p] = "new" /\ refresh_data'[p] # NoResponse
           /\ LacksTokenOrDomain(refresh_data'[p]))
            => file' = file

\* C2: a refresh exchange answered without access_token or without api_domain
\* makes refresh_access_token() return (None, the answer's error or the
\* generic message), and the call leaves the token file as it was.
C2_IncompleteRefreshFails == []C2_Failure /\ [][C2_NoSave]_vars

C2_Witness ==
    \E p \in Requests :
        /\ pc[p] = "h_check"
        /\ refresh_data[p] = Body(Absent, Absent, "D1", "invalid_code")
        /\ err[p] = "invalid_code"

C3_Exchange ==
    \A p \in Requests :
        (StepOf(p) /\ pc[p] = "new" /\ refresh_data'[p] # NoResponse
           /\ ~LacksTokenOrDomain(refresh_data'[p]))
            => /\ pc'[p] = "r_save"
               /\ file.exists
               /\ token_store'[p].refresh_token = file.data.refresh_token

C3_Save ==
    \A p \in Requests :
        (StepOf(p) /\ pc[p] = "r_save")
            => /\ access_token'[p] = refresh_data[p].access_token
               /\ err'[p] = None
               /\ file'.exists
               /\ file'.data = [refresh_token |-> token_store[p].refresh_token,
                                access_token |-> refresh_data[p].access_token,
                                api_domain |-> refresh_data[p].api_domain]

\* C3: with refresh token R stored and the exchange answered with access_token
\* T and api_domain D, refresh_access_token() returns (T, None) and the record
\* it leaves in the file is R, T, D.
C3_RefreshSuccess == [][C3_Exchange /\ C3_Save]_vars

C3_Witness ==
    \E p \in Requests :
        /\ pc[p] = "h_load"
        /\ access_token[p] = "T1"
        /\ err[p] = None
        /\ file = [exists |-> TRUE,
                   data |-> [refresh_token |-> "R1", access_token |-> "T1", api_domain |-> "D1"]]

\* C4: when the token file is absent or its record has no or an empty
\* refresh_token, refresh_access_token() returns (None, the AuthRequired
\* message) with no outbound call and no write of the file.
C4_AuthRequired ==
    [][\A p \in Requests :
        (StepOf(p) /\ pc[p] = "new" /\ route'[p] \in ResourceRoutes
           /\ (~file.exists \/ file.data.refresh_token \in {Absent, None, ""}))
            => /\ pc'[p] = "h_check"
               /\ access_token'[p] = None
               /\ err'[p] = "No refresh token found. Please authenticate via /auth first."
               /\ calls'[p] = <<>>
               /\ file' = file]_vars

C4_Witness ==
    \E p \in Requests :
        /\ pc[p] = "h_check"
        /\ err[p] = NoRefreshMsg
        /\ file.exists
        /\ file.data.refresh_token = ""

\* what C5 promises of a callback request
MissingCodeAnswer(p) ==
    /\ pc[p] = "done"
    /\ status[p] = 400
    /\ body[p] = "Authorization code not found"
    /\ calls[p] = <<>>
    /\ auth_data[p] = NoResponse
    /\ lastSave # p

\* C5 as stated: a missing, empty or malformed code is answered 400
\* MissingCode with no call to the provider and no write.
C5_MalformedOrMissing ==
    \A p \in Requests :
        (route[p] = "callback" /\ (code[p] \in {None, ""} \/ Malformed(code[p])))
            => MissingCodeAnswer(p)

C5_State ==
    \A p \in Requests :
        (route[p] = "callback" /\ code[p] \in {None, ""}) => MissingCodeAnswer(p)

C5_Step ==
    \A p \in Requests :
        (StepOf(p) /\ route'[p] = "callback" /\ code'[p] \in {None, ""}) => file' = file

\* C5 amended: a missing or empty code is answered 400 MissingCode with no
\* call to the provider and no write of the token file.
C5_MissingCode == []C5_State /\ [][C5_Step]_vars

C5_Witness ==
    \E p \in Requests :
        /\ route[p] = "callback"
        /\ code[p] = ""
        /\ status[p] = 400

C6_State ==
    \A p \in Requests :
        (route[p] = "callback" /\ auth_data[p] # NoResponse)
            => IF HasAllThree(auth_data[p])
               THEN \/ /\ pc[p] = "c_save"
                       /\ token_store[p] = [refresh_token |-> auth_data[p].refresh_token,
                                            access_token |-> auth_data[p].access_token,
                                            api_domain |-> auth_data[p].api_domain]
                    \/ /\ pc[p] = "done"
                       /\ status[p] = 200
               ELSE /\ pc[p] = "done"
                    /\ status[p] = 400
                    /\ body[p] = "Missing refresh_token, access_token or api_domain in auth response."
                    /\ lastSave # p

C6_Step ==
    \A p \in Requests :
        (StepOf(p) /\ route'[p] = "callback")
            => IF pc[p] = "c_save"
               THEN /\ HasAllThree(auth_data[p])
                    /\ file' = [exists |-> TRUE,
                                data |-> [refresh_token |-> auth_data[p].refresh_token,
                                          access_token |-> auth_data[p].access_token,
                                          api_domain |-> auth_data[p].api_domain]]
               ELSE file' = file

\* C6: /callback writes the token file exactly when the answer holds non-empty
\* refresh_token, access_token and api_domain, and then the file is those
\* three values and nothing else; otherwise it answers 400 and writes nothing.
C6_CallbackWritesIffComplete == []C6_State /\ [][C6_Step]_vars

C6_Witness ==
    \E p \in Requests :
        /\ route[p] = "callback"
        /\ pc[p] = "done"
        /\ status[p] = 200
        /\ file.data = [refresh_token |-> "R2", access_token |-> "T3", api_domain |-> "D3"]

\* refresh_access_token() has returned a failure to the handler of p
RefresherFailed(p) == route[p] \in ResourceRoutes /\ access_token[p] = None

\* C7: whenever the refresher fails, whatever the provider's error value, the
\* resource handler issues no further outbound call and answers 401.
C7_FailedRefreshAnswers401 ==
    [][\A p \in Requests :
        (StepOf(p) /\ RefresherFailed(p))
            => /\ calls'[p] = calls[p]
               /\ pc'[p] = "done" => status'[p] = 401]_vars

\* C8 as stated: at most two outbound calls per request.
C8_AtMostTwoCalls == \A p \in Requests : Len(calls[p]) <= 2

\* the outbound calls a route issues, in order
CallsOf(r) ==
    CASE r \in ListRoutes -> <<"refresh", "fields", "list">>
      [] r \in CreateRoutes -> <<"refresh", "create">>
      [] r = "callback" -> <<"token">>
      [] OTHER -> <<>>

\* C8 amended: a request issues at most three outbound calls, one after
\* another and none twice: a list route the refresh exchange, the schema fetch
\* and the list call, a create route the refresh exchange and the create call,
\* /callback the token exchange, /auth none.
C8_CallsInOrder ==
    \A p \in Requests :
        /\ Len(calls[p]) <= Len(CallsOf(route[p]))
        /\ calls[p] = SubSeq(CallsOf(route[p]), 1, Len(calls[p]))

C8_Witness ==
    \E p \in Requests : calls[p] = <<"refresh", "fields", "list">>

\* C9: saves are not ordered by their exchanges: the file holds the
\* access_token and api_domain of the refresh that saved last, whichever
\* exchange was answered last.
C9_LastSaveWins ==
    \A p \in Requests :
        (lastSave = p /\ route[p] \in ResourceRoutes /\ pc[p] = "h_load")
            => /\ file.data.access_token = refresh_data[p].access_token
               /\ file.data.api_domain = refresh_data[p].api_domain

\* two refreshes have both succeeded and the file holds the tokens of the one
\* answered first
C9_Witness ==
    \E p, q \in Requests :
        /\ p # q
        /\ pc[p] = "h_load" /\ err[p] = None /\ NonEmpty(access_token[p])
        /\ pc[q] = "h_load" /\ err[q] = None /\ NonEmpty(access_token[q])
        /\ lastExchange = q
        /\ lastSave = p
        /\ refresh_data[p].access_token # refresh_data[q].access_token
        /\ file.data.access_token = refresh_data[p].access_token
        /\ file.data.api_domain = refresh_data[p].api_domain

\* C10: the access token in the Authorization header and the api_domain in
\* the URL of a resource handler's outbound request come from the answer to
\* the handler's own refresh.
C10_TokenAndDomainFromOwnRefresh ==
    [][\A p \in Requests :
        (StepOf(p) /\ pc[p] = "h_load" /\ calls'[p] # calls[p] /\ NonEmpty(access_token[p]))
            => /\ access_token[p] = refresh_data[p].access_token
               /\ Get(load_tokens, "api_domain") = refresh_data[p].api_domain]_vars
====
